---- MODULE Spec2Model ----
(***************************************************************************)
(* atlantis-emoji-gate: the merge-request approval gate.                   *)
(*                                                                         *)
(* Strings are sequences of one-character strings, so that the text        *)
(* functions of the program (line scanning, trimming, field splitting,     *)
(* path cleaning, glob matching) are computed character by character.      *)
(***************************************************************************)
EXTENDS Integers, Sequences, FiniteSets, TLC

(***************************************************************************)
(* Characters, in code-point order (needed by the glob ranges [a-z]).      *)
(***************************************************************************)
Runes ==
    << "\t", "\n", "\r", " ", "#", "*", "-", ".", "/", "1", "2", "3", "4",
       "?", "@", "A", "[", "\\", "]", "^", "_",
       "a", "b", "c", "d", "e", "f", "g", "h", "i", "j", "k", "l", "m",
       "n", "o", "p", "q", "r", "s", "t", "u", "v", "w", "x", "y", "z" >>

RuneSet == { Runes[i] : i \in 1..Len(Runes) }

Ord == [ c \in RuneSet |-> CHOOSE i \in 1..Len(Runes) : Runes[i] = c ]

\* The separator of package path/filepath on the platforms the gate runs on.
Separator == "/"

\* unicode.IsSpace restricted to the characters of Runes.
IsSpace(c) == c \in { "\t", "\n", "\r", " " }

Drop(s, n) == SubSeq(s, n + 1, Len(s))

Take(s, n) == SubSeq(s, 1, n)

Contains(s, c) == \E i \in 1..Len(s) : s[i] = c

(***************************************************************************)
(* package strings                                                         *)
(***************************************************************************)
Chars == Seq(RuneSet)

\* The elements of a finite set of integers, in increasing order.
SortedSeq(S) ==
    [ k \in 1..Cardinality(S) |->
        CHOOSE x \in S : Cardinality({ y \in S : y < x }) = k - 1 ]

HasPrefix(s, prefix) ==
    /\ Len(s) >= Len(prefix)
    /\ Take(s, Len(prefix)) = prefix

TrimPrefix(s, prefix) ==
    IF HasPrefix(s, prefix) THEN Drop(s, Len(prefix)) ELSE s

\* strings.TrimSpace: from the first to the last character that is no space.
TrimSpace(s) ==
    LET keep == { i \in 1..Len(s) : ~IsSpace(s[i]) }
    IN  IF keep = { }
        THEN << >>
        ELSE SubSeq(s, CHOOSE i \in keep : \A j \in keep : i <= j,
                       CHOOSE i \in keep : \A j \in keep : i >= j)

\* strings.Fields: the maximal runs of non-space characters, in order.
FieldEnd(s, i) ==
    CHOOSE j \in i..Len(s) :
        /\ \A k \in i..j : ~IsSpace(s[k])
        /\ j = Len(s) \/ IsSpace(s[j + 1])

Fields(s) ==
    LET starts == SortedSeq({ i \in 1..Len(s) :
                                /\ ~IsSpace(s[i])
                                /\ i = 1 \/ IsSpace(s[i - 1]) })
    IN  [ k \in 1..Len(starts) |-> SubSeq(s, starts[k], FieldEnd(s, starts[k])) ]

\* The pieces of s between the occurrences of sep; n + 1 pieces for n
\* occurrences, empty ones included.
SplitAt(s, sep) ==
    LET at == SortedSeq({ i \in 1..Len(s) : s[i] = sep })
        n == Len(at)
    IN  [ k \in 1..(n + 1) |->
            SubSeq(s, IF k = 1 THEN 1 ELSE at[k - 1] + 1,
                      IF k = n + 1 THEN Len(s) ELSE at[k] - 1) ]

(***************************************************************************)
(* package bufio: Scanner with the default split function ScanLines.       *)
(***************************************************************************)
dropCR(data) ==
    IF data # << >> /\ data[Len(data)] = "\r" THEN Take(data, Len(data) - 1) ELSE data

\* The tokens Scan() yields for a reader that delivers data without error:
\* one per newline-terminated line, plus a final unterminated non-empty one.
ScanLines(data) ==
    LET Tokens(pieces) ==
            IF pieces[Len(pieces)] = << >>
            THEN Take(pieces, Len(pieces) - 1)
            ELSE pieces
        DropCRs(tokens) == [ k \in 1..Len(tokens) |-> dropCR(tokens[k]) ]
    IN  DropCRs(Tokens(SplitAt(data, "\n")))

(***************************************************************************)
(* package path/filepath: Clean                                            *)
(***************************************************************************)
DotDot == << ".", "." >>

\* Clean's element loop: drop empty and "." elements, let ".." remove the
\* element before it, keep a leading ".." only when the path is not rooted.
CleanElems[elems \in Seq(Chars), rooted \in BOOLEAN, out \in Seq(Chars)] ==
    IF elems = << >>
    THEN out
    ELSE LET e == Head(elems)
             rest == Tail(elems)
         IN  IF e = << >> \/ e = << "." >>
             THEN CleanElems[rest, rooted, out]
             ELSE IF e = DotDot
                  THEN IF out # << >> /\ out[Len(out)] # DotDot
                       THEN CleanElems[rest, rooted, Take(out, Len(out) - 1)]
                       ELSE IF ~rooted
                            THEN CleanElems[rest, rooted, Append(out, e)]
                            ELSE CleanElems[rest, rooted, out]
                  ELSE CleanElems[rest, rooted, Append(out, e)]

JoinSep[elems \in Seq(Chars)] ==
    IF elems = << >>
    THEN << >>
    ELSE IF Len(elems) = 1
         THEN elems[1]
         ELSE elems[1] \o << Separator >> \o JoinSep[Tail(elems)]

Clean(path) ==
    IF path = << >>
    THEN << "." >>
    ELSE LET Joined(rooted, out) ==
                 IF rooted
                 THEN << Separator >> \o JoinSep[out]
                 ELSE IF out = << >> THEN << "." >> ELSE JoinSep[out]
         IN  Joined(path[1] = Separator,
                    CleanElems[SplitAt(path, Separator), path[1] = Separator, << >>])

(***************************************************************************)
(* package path/filepath: Match                                            *)
(***************************************************************************)
\* scanChunk, after the leading stars are removed: the length of the chunk,
\* which ends before the first star that is not inside a character class.
ScanIndex[pattern \in Chars, i \in Nat, inrange \in BOOLEAN] ==
    IF i > Len(pattern)
    THEN Len(pattern)
    ELSE LET c == pattern[i]
         IN  IF c = "\\"
             THEN ScanIndex[pattern, IF i + 1 <= Len(pattern) THEN i + 2 ELSE i + 1, inrange]
             ELSE IF c = "["
                  THEN ScanIndex[pattern, i + 1, TRUE]
                  ELSE IF c = "]"
                       THEN ScanIndex[pattern, i + 1, FALSE]
                       ELSE IF c = "*" /\ ~inrange
                            THEN i - 1
                            ELSE ScanIndex[pattern, i + 1, inrange]

\* The number of stars pattern begins with.
LeadingStars(pattern) ==
    CHOOSE n \in 0..Len(pattern) :
        /\ \A k \in 1..n : pattern[k] = "*"
        /\ n = Len(pattern) \/ pattern[n + 1] # "*"

scanChunk(pattern) ==
    LET Cut(p, n) == [ star |-> pattern # << >> /\ pattern[1] = "*",
                       chunk |-> Take(p, n),
                       rest |-> Drop(p, n) ]
        Scan(p) == Cut(p, ScanIndex[p, 1, FALSE])
    IN  Scan(Drop(pattern, LeadingStars(pattern)))

\* getEsc: one, possibly escaped, character of a character class.
getEsc(chunk) ==
    IF chunk = << >> \/ chunk[1] = "-" \/ chunk[1] = "]"
    THEN [ r |-> 0, nchunk |-> << >>, err |-> TRUE ]
    ELSE LET c == IF chunk[1] = "\\" THEN Tail(chunk) ELSE chunk
         IN  IF c = << >>
             THEN [ r |-> 0, nchunk |-> << >>, err |-> TRUE ]
             ELSE [ r |-> Ord[c[1]], nchunk |-> Tail(c), err |-> Tail(c) = << >> ]

\* The ranges of a character class, up to its closing bracket. r is the code
\* point the class is matched against (0 once the match has failed).
ClassRanges[chunk \in Chars, r \in Nat, match \in BOOLEAN, nrange \in Nat] ==
    LET BadPattern == [ chunk |-> << >>, match |-> FALSE, err |-> TRUE ]
        Range(lo, hi) ==
            IF hi.err
            THEN BadPattern
            ELSE ClassRanges[hi.nchunk, r, match \/ (lo.r <= r /\ r <= hi.r), nrange + 1]
        Single(lo) ==
            IF lo.err
            THEN BadPattern
            ELSE IF lo.nchunk[1] = "-"
                 THEN Range(lo, getEsc(Tail(lo.nchunk)))
                 ELSE ClassRanges[lo.nchunk, r, match \/ lo.r = r, nrange + 1]
    IN  IF chunk # << >> /\ chunk[1] = "]" /\ nrange > 0
        THEN [ chunk |-> Tail(chunk), match |-> match, err |-> FALSE ]
        ELSE Single(getEsc(chunk))

\* matchChunk: does chunk match a prefix of s?  After the match has failed the
\* loop goes on over chunk, to report a malformed pattern, without reading s.
matchChunkFrom[chunk \in Chars, s \in Chars, failed0 \in BOOLEAN] ==
    LET BadPattern == [ rest |-> << >>, ok |-> FALSE, err |-> TRUE ]
        Class(failed, negated, cls) ==
            IF cls.err
            THEN BadPattern
            ELSE matchChunkFrom[cls.chunk, IF failed THEN s ELSE Tail(s),
                                failed \/ cls.match = negated]
        Bracket(failed, c1) ==
            Class(failed, c1 # << >> /\ c1[1] = "^",
                  ClassRanges[IF c1 # << >> /\ c1[1] = "^" THEN Tail(c1) ELSE c1,
                              IF failed THEN 0 ELSE Ord[s[1]], FALSE, 0])
        Literal(failed, c) ==
            IF c = << >>
            THEN BadPattern
            ELSE IF failed
                 THEN matchChunkFrom[Tail(c), s, TRUE]
                 ELSE matchChunkFrom[Tail(c), Tail(s), c[1] # s[1]]
        Switch(failed) ==
            IF chunk[1] = "["
            THEN Bracket(failed, Tail(chunk))
            ELSE IF chunk[1] = "?"
                 THEN IF failed
                      THEN matchChunkFrom[Tail(chunk), s, TRUE]
                      ELSE matchChunkFrom[Tail(chunk), Tail(s), s[1] = Separator]
                 ELSE Literal(failed, IF chunk[1] = "\\" THEN Tail(chunk) ELSE chunk)
    IN  IF chunk = << >>
        THEN IF failed0
             THEN [ rest |-> << >>, ok |-> FALSE, err |-> FALSE ]
             ELSE [ rest |-> s, ok |-> TRUE, err |-> FALSE ]
        ELSE Switch(failed0 \/ s = << >>)

matchChunk(chunk, s) == matchChunkFrom[chunk, s, FALSE]

\* "Before returning false with no error, check that the remainder of the
\* pattern is syntactically valid."
RemainderBad[pattern \in Chars] ==
    LET Chunk(sc) == matchChunk(sc.chunk, << >>).err \/ RemainderBad[sc.rest]
    IN  IF pattern = << >> THEN FALSE ELSE Chunk(scanChunk(pattern))

\* The loop of Match that retries a chunk after a star, skipping i+1
\* characters of name; it cannot skip a separator.
StarSkip[chunk \in Chars, rest \in Chars, name \in Chars, i \in Nat] ==
    LET Try(m) ==
            IF m.ok
            THEN IF rest = << >> /\ m.rest # << >>
                 THEN StarSkip[chunk, rest, name, i + 1]
                 ELSE [ kind |-> "next", name |-> m.rest ]
            ELSE IF m.err
                 THEN [ kind |-> "err", name |-> << >> ]
                 ELSE StarSkip[chunk, rest, name, i + 1]
    IN  IF i >= Len(name) \/ name[i + 1] = Separator
        THEN [ kind |-> "none", name |-> << >> ]
        ELSE Try(matchChunk(chunk, Drop(name, i + 1)))

MatchFrom[pattern \in Chars, name \in Chars] ==
    LET AfterSkip(sc, sk) ==
            IF sk.kind = "next"
            THEN MatchFrom[sc.rest, sk.name]
            ELSE IF sk.kind = "err"
                 THEN [ matched |-> FALSE, err |-> TRUE ]
                 ELSE [ matched |-> FALSE, err |-> RemainderBad[sc.rest] ]
        AfterChunk(sc, m) ==
            IF m.ok /\ (m.rest = << >> \/ sc.rest # << >>)
            THEN MatchFrom[sc.rest, m.rest]
            ELSE IF m.err
                 THEN [ matched |-> FALSE, err |-> TRUE ]
                 ELSE AfterSkip(sc, IF sc.star
                                    THEN StarSkip[sc.chunk, sc.rest, name, 0]
                                    ELSE [ kind |-> "none", name |-> << >> ])
        Chunk(sc) ==
            IF sc.star /\ sc.chunk = << >>
            THEN [ matched |-> ~Contains(name, Separator), err |-> FALSE ]
            ELSE AfterChunk(sc, matchChunk(sc.chunk, name))
    IN  IF pattern = << >>
        THEN [ matched |-> name = << >>, err |-> FALSE ]
        ELSE Chunk(scanChunk(pattern))

\* filepath.Match(pattern, name)
Match(pattern, name) == MatchFrom[pattern, name]

(***************************************************************************)
(* Errors: nil, or the chain of wrapped messages, outermost first, and the *)
(* CODEOWNERS pattern an "invalid pattern" message carries.                *)
(***************************************************************************)
NilErr == [ chain |-> << >>, pattern |-> << >> ]

NewErr(msg) == [ chain |-> << msg >>, pattern |-> << >> ]

\* fmt.Errorf("msg: %w", e)
Wrap(msg, e) == [ chain |-> << msg >> \o e.chain, pattern |-> e.pattern ]

(***************************************************************************)
(* internal/processor: the approval processor (last matching rule wins).   *)
(***************************************************************************)
\* strings.NewReader(content): a reader that delivers content, then EOF.
NewReader(content) == [ data |-> content, fail |-> FALSE ]

\* A reader whose Read fails at once (FaultyReader of the processor's tests).
FaultyReader == [ data |-> << >>, fail |-> TRUE ]

\* A matcher that takes a trailing "/*" for "everything below".
isPathMatchBelow(pattern, path) ==
    IF pattern = << "*" >>
    THEN [ matched |-> TRUE, err |-> FALSE ]
    ELSE IF Len(pattern) >= 2 /\ Drop(pattern, Len(pattern) - 2) = << "/", "*" >>
    THEN [ matched |-> HasPrefix(path, Take(pattern, Len(pattern) - 1)),
           err |-> FALSE ]
    ELSE Match(pattern, path)

\* A matcher that takes a malformed pattern for one that does not match.
isPathMatchLenient(pattern, path) ==
    IF pattern = << "*" >>
    THEN [ matched |-> TRUE, err |-> FALSE ]
    ELSE [ matched |-> Match(pattern, path).matched, err |-> FALSE ]

isPathMatch(pattern, path) ==
    IF pattern = << "*" >>
    THEN [ matched |-> TRUE, err |-> FALSE ]
    ELSE Match(pattern, path)

\* applicableOwners: nil until a rule matches, then the owners of that rule.
Owners == [ isNil : BOOLEAN, list : Seq(Chars) ]

NilOwners == [ isNil |-> TRUE, list |-> << >> ]

\* Owners kept as written, "@" included.
StripOwnersKeepAt(parts) ==
    [ isNil |-> FALSE,
      list |-> [ k \in 1..(Len(parts) - 1) |-> parts[k + 1] ] ]

StripOwners(parts) ==
    [ isNil |-> FALSE,
      list |-> [ k \in 1..(Len(parts) - 1) |-> TrimPrefix(parts[k + 1], << "@" >>) ] ]

\* First match wins: a matching rule is ignored once owners are set.
NextOwnersFirstWins(applicableOwners, parts, matched) ==
    IF matched /\ applicableOwners.isNil
    THEN StripOwners(parts)
    ELSE applicableOwners

\* What a rule line does to applicableOwners: a matching rule replaces them.
NextOwners(applicableOwners, parts, matched) ==
    IF matched THEN StripOwners(parts) ELSE applicableOwners

\* A token count that lets a line with a pattern and no owner through.
TooFewPartsOnlyEmpty(parts) == Len(parts) < 1

\* A line with fewer than two fields is skipped.
TooFewParts(parts) == Len(parts) < 2

\* The scanner loop of CheckApproval over the lines still to be read.
ScanRules[lines \in Seq(Chars), path \in Chars, applicableOwners \in Owners] ==
    LET Matched(parts, m) ==
            IF m.err
            THEN [ owners |-> NilOwners,
                   err |-> [ chain |-> << "invalid pattern in CODEOWNERS",
                                          "syntax error in pattern" >>,
                             pattern |-> parts[1] ] ]
            ELSE ScanRules[Tail(lines), path,
                           NextOwners(applicableOwners, parts, m.matched)]
        Rule(parts) ==
            IF TooFewParts(parts)
            THEN ScanRules[Tail(lines), path, applicableOwners]
            ELSE Matched(parts, isPathMatch(parts[1], path))
        Line(line) ==
            IF line = << >> \/ HasPrefix(line, << "#" >>)
            THEN ScanRules[Tail(lines), path, applicableOwners]
            ELSE Rule(Fields(line))
    IN  IF lines = << >>
        THEN [ owners |-> applicableOwners, err |-> NilErr ]
        ELSE Line(TrimSpace(Head(lines)))

\* The self-approval test with the Insecure flag read the wrong way round.
IsSelfApprovalInverted(reaction, c) ==
    c.Insecure /\ reaction.Username = c.MrAuthor

\* The self-approval test without the Insecure flag.
IsSelfApprovalAlways(reaction, c) == reaction.Username = c.MrAuthor

\* The reaction is the merge request author's own and that is not allowed.
IsSelfApproval(reaction, c) == ~c.Insecure /\ reaction.Username = c.MrAuthor

\* A membership test that takes "no rule matched" for an error.
IsOwnerOrNoRuleErr(applicableOwners, reaction) ==
    IF applicableOwners.isNil
    THEN [ approved |-> FALSE, err |-> NewErr("no matching rule in CODEOWNERS") ]
    ELSE [ approved |-> \E k \in 1..Len(applicableOwners.list) :
                            applicableOwners.list[k] = reaction.Username,
           err |-> NilErr ]

\* The end of CheckApproval: no rule matched, or the membership test.
IsOwner(applicableOwners, reaction) ==
    IF applicableOwners.isNil
    THEN [ approved |-> FALSE, err |-> NilErr ]
    ELSE [ approved |-> \E k \in 1..Len(applicableOwners.list) :
                            applicableOwners.list[k] = reaction.Username,
           err |-> NilErr ]

\* CheckApproval with the CODEOWNERS text read before the reaction is looked at.
CheckApprovalReadFirst(codeowners, reaction, c) ==
    LET Scanned(scan) ==
            IF scan.err # NilErr
            THEN [ approved |-> FALSE, err |-> scan.err ]
            ELSE IF codeowners.fail
            THEN [ approved |-> FALSE,
                   err |-> Wrap("error reading CODEOWNERS content",
                                NewErr("simulated read error")) ]
            ELSE IF reaction.Name # c.ApproveEmoji \/ IsSelfApproval(reaction, c)
            THEN [ approved |-> FALSE, err |-> NilErr ]
            ELSE IsOwner(scan.owners, reaction)
    IN  Scanned(ScanRules[IF codeowners.fail
                          THEN << >>
                          ELSE ScanLines(codeowners.data),
                          Clean(c.TerraformPath), NilOwners])

CheckApproval(codeowners, reaction, c) ==
    LET Scanned(scan) ==
            IF scan.err # NilErr
            THEN [ approved |-> FALSE, err |-> scan.err ]
            ELSE IF codeowners.fail
            THEN [ approved |-> FALSE,
                   err |-> Wrap("error reading CODEOWNERS content",
                                NewErr("simulated read error")) ]
            ELSE IsOwner(scan.owners, reaction)
    IN  IF reaction.Name # c.ApproveEmoji
        THEN [ approved |-> FALSE, err |-> NilErr ]
        ELSE IF IsSelfApproval(reaction, c)
        THEN [ approved |-> FALSE, err |-> NilErr ]
        ELSE Scanned(ScanRules[IF codeowners.fail
                               THEN << >>
                               ELSE ScanLines(codeowners.data),
                               Clean(c.TerraformPath), NilOwners])

(***************************************************************************)
(* The inputs the model draws from: user names, target paths, CODEOWNERS   *)
(* lines and texts.                                                        *)
(***************************************************************************)
alice ==
    << "a", "l", "i", "c", "e" >>

Alice ==
    << "A", "l", "i", "c", "e" >>

bob ==
    << "b", "o", "b" >>

carol ==
    << "c", "a", "r", "o", "l" >>

username1 ==
    << "u", "s", "e", "r", "n", "a", "m", "e", "1" >>

username2 ==
    << "u", "s", "e", "r", "n", "a", "m", "e", "2" >>

username3 ==
    << "u", "s", "e", "r", "n", "a", "m", "e", "3" >>

username4 ==
    << "u", "s", "e", "r", "n", "a", "m", "e", "4" >>

user2 ==
    << "u", "s", "e", "r", "2" >>

user3 ==
    << "u", "s", "e", "r", "3" >>

PathAB ==
    << "a", "/", "b" >>

PathABC ==
    << "a", "/", "b", "/", "c" >>

\* cleaned to a/b
PathABCD ==
    << "a", "/", "b", "/", "c", "/", "d" >>

PathUnclean ==
    << ".", "/", "a", "/", "/", "b", "/" >>

PathC ==
    << "c" >>

PathRootedAB ==
    << "/", "a", "/", "b" >>

\* the directory as Atlantis passes it (REPO_REL_DIR), relative
PathProvision ==
    << "t", "e", "r", "r", "a", "f", "o", "r", "m", "/", "p", "r", "o", "v",
    "i", "s", "i", "o", "n" >>

PathDeploy ==
    << "t", "e", "r", "r", "a", "f", "o", "r", "m", "/", "d", "e", "p", "l",
    "o", "y" >>

\* the directory as the README writes it, rooted
PathRootedProvision ==
    << "/", "t", "e", "r", "r", "a", "f", "o", "r", "m", "/", "p", "r", "o",
    "v", "i", "s", "i", "o", "n" >>

PathRootedDeploy ==
    << "/", "t", "e", "r", "r", "a", "f", "o", "r", "m", "/", "d", "e", "p",
    "l", "o", "y" >>

LineStarAlice ==
    << "*", " ", "@", "a", "l", "i", "c", "e" >>

LineDirBob ==
    << "a", "/", "*", " ", "@", "b", "o", "b" >>

LineBothOwners ==
    << "a", "/", "b", " ", "@", "a", "l", "i", "c", "e", " ", "@", "b", "o",
    "b" >>

LineComment ==
    << "#", " ", "*", " ", "@", "b", "o", "b" >>

LineBlank ==
    << " ", " " >>

LineOneToken ==
    << "a", "/", "b" >>

\* a single token that is no valid pattern
LineOneBadToken ==
    << "[", "a" >>

\* a rule whose pattern is malformed: the class is not closed
LineMalformed ==
    << "[", "a", " ", "@", "a", "l", "i", "c", "e" >>

\* leading space, a tab between the fields, a carriage return
LineSpaced ==
    << " ", "a", "/", "?", "\t", "@", "A", "l", "i", "c", "e", "\r" >>

\* an owner written without the @ marker
LineNoAt ==
    << "*", "/", "b", " ", "b", "o", "b" >>

LineDeepBob ==
    << "a", "/", "b", "/", "*", " ", "@", "b", "o", "b" >>

\* a rooted pattern for the directory above the target
LineTopBob ==
    << "/", "a", " ", "@", "b", "o", "b" >>

\* the target directory itself
LineSubAlice ==
    << "a", "/", "b", " ", "@", "a", "l", "i", "c", "e" >>

\* The CODEOWNERS example of the README (Permissions).
ReadmeCodeOwners ==
    << "*", " ", "@", "u", "s", "e", "r", "n", "a", "m", "e", "1", "\n", "/",
    "t", "e", "r", "r", "a", "f", "o", "r", "m", " ", "@", "u", "s", "e", "r",
    "n", "a", "m", "e", "4", "\n", "/", "t", "e", "r", "r", "a", "f", "o",
    "r", "m", "/", "p", "r", "o", "v", "i", "s", "i", "o", "n", " ", "@", "u",
    "s", "e", "r", "n", "a", "m", "e", "2", "\n", "/", "t", "e", "r", "r",
    "a", "f", "o", "r", "m", "/", "d", "e", "p", "l", "o", "y", " ", "@", "u",
    "s", "e", "r", "n", "a", "m", "e", "3", "\n" >>

\* Two sibling directories, each with its own owner.
SiblingCodeOwners ==
    << "/", "t", "e", "r", "r", "a", "f", "o", "r", "m", "/", "p", "r", "o",
    "v", "i", "s", "i", "o", "n", " ", "@", "u", "s", "e", "r", "2", "\n",
    "/", "t", "e", "r", "r", "a", "f", "o", "r", "m", "/", "d", "e", "p", "l",
    "o", "y", " ", "@", "u", "s", "e", "r", "3" >>


\* Lines joined into a text, each terminated by a newline.
JoinLines[ls \in Seq(Chars)] ==
    IF ls = << >> THEN << >> ELSE Head(ls) \o << "\n" >> \o JoinLines[Tail(ls)]

MaxLines == 2

MaxReactions == 2

LinePool ==
    { LineStarAlice, LineDirBob, LineDeepBob, LineBothOwners, LineComment,
      LineOneToken, LineMalformed, LineSpaced, LineNoAt }

SeqsUpTo(S, n) == UNION { [ 1..k -> S ] : k \in 0..n }

\* The CODEOWNERS texts the processor is checked on.
Texts == { JoinLines[ls] : ls \in SeqsUpTo(LinePool, MaxLines) }

TargetPaths == { PathAB, PathABC, PathABCD, PathUnclean, PathC, PathRootedAB }

ApproveEmojiDefault == "thumbsup"

EmojiNames == { "thumbsup", "thumbsdown" }

\* The CODEOWNERS texts the collaborator GetFileContent may deliver.
FileContents ==
    { << >>,
      JoinLines[<< LineStarAlice >>],
      JoinLines[<< LineStarAlice, LineDirBob >>],
      JoinLines[<< LineComment, LineBothOwners, LineBlank, LineDeepBob >>],
      JoinLines[<< LineDirBob, LineMalformed >>] }

\* Reaction timestamps and latest-commit timestamps, as instants 1 < 2.
\* The zero time.Time (lastCommitTimestamp when it is never fetched) is 0.
Instants == { 1, 2 }

ZeroTime == 0

\* A comparison that also takes equal instants for earlier.
BeforeOrEqual(t, u) == t <= u

\* A comparison that finds nothing earlier.
NeverBefore(t, u) == FALSE

\* time.Time.Before
Before(t, u) == t < u

AwardEmojis(users) ==
    [ Name : EmojiNames, Username : users, UpdatedAt : Instants ]

(***************************************************************************)
(* State.                                                                  *)
(***************************************************************************)
VARIABLES
    cfg,                  \* config.GitlabConfig, read-only during a run
    pc,                   \* the position of Run / ProcessMR
    calls,                \* the collaborator calls made so far, in order
    project,              \* the base project, once fetched
    codeOwnersContent,    \* the CODEOWNERS text, once fetched
    reactions,            \* the reactions, once listed
    lastCommitTimestamp,  \* the latest commit's instant, once fetched
    idx,                  \* the reaction the loop of CheckMandatoryApproval is at
    checked,              \* the reactions handed to CheckApproval, in order
    approver,             \* the position of the reaction that granted, or 0
    ret,                  \* what ProcessMR returned: (approved, err)
    exitCode,             \* what Run returned, or -1 before it returns
    reader,               \* CheckApproval called directly: its codeowners
    reaction,             \*   its reaction
    result,               \*   what it returned
    owners,               \* the collect-all orchestrator: the parsed entries
    approvedBy            \*   the approvers it collected

vars ==
    << cfg, pc, calls, project, codeOwnersContent, reactions, lastCommitTimestamp,
       idx, checked, approver, ret, exitCode, reader, reaction, result,
       owners, approvedBy >>

NoProject == [ ID |-> 0, DefaultBranch |-> "" ]

BaseProject == [ ID |-> 1, DefaultBranch |-> "main" ]

CodeOwnersProject == [ ID |-> 2, DefaultBranch |-> "master" ]

NoReaction == [ Name |-> "", Username |-> << >>, UpdatedAt |-> ZeroTime ]

NoResult == [ approved |-> FALSE, err |-> NilErr ]

Configs(authors, paths, repos) ==
    [ ApproveEmoji : { ApproveEmojiDefault },
      MrAuthor : authors,
      Insecure : BOOLEAN,
      Restricted : BOOLEAN,
      TerraformPath : paths,
      CodeOwnersRepo : repos,
      CodeOwnersPath : { "CODEOWNERS" },
      BaseRepo : { "owner/name" },
      PullRequestID : { 7 } ]

\* cfg.CodeOwnersPath: the default and another place.
CodeOwnersPaths == { "CODEOWNERS", ".gitlab/CODEOWNERS" }

\* The state of a run before Run is entered.
Idle ==
    /\ calls = << >>
    /\ project = NoProject
    /\ codeOwnersContent = << >>
    /\ reactions = << >>
    /\ lastCommitTimestamp = ZeroTime
    /\ idx = 0
    /\ checked = << >>
    /\ approver = 0
    /\ ret = NoResult
    /\ exitCode = -1
    /\ owners = << >>
    /\ approvedBy = << >>

(***************************************************************************)
(* The gate: main() has parsed the configuration and calls Run.            *)
(***************************************************************************)
InitRun ==
    /\ \E c \in Configs({ alice, carol }, { PathAB, PathC }, { "", "group/owners" }),
          path \in CodeOwnersPaths :
           cfg = [ c EXCEPT !.CodeOwnersPath = path ]
    /\ pc = "ProcessMR"
    /\ Idle
    /\ reader = NewReader(<< >>)
    /\ reaction = NoReaction
    /\ result = NoResult

(***************************************************************************)
(* The processor on its own: CheckApproval applied to one reader, one      *)
(* reaction and one configuration.                                         *)
(***************************************************************************)
Readers(texts) == { NewReader(text) : text \in texts } \cup { FaultyReader }

InitGeneric ==
    /\ cfg \in Configs({ alice, carol }, TargetPaths, { "" })
    /\ ~cfg.Restricted
    /\ reader \in Readers(Texts)
    /\ reaction \in AwardEmojis({ alice, Alice, bob })
    /\ reaction.UpdatedAt = 1

\* The README's example: its CODEOWNERS, its directories, its users.
InitReadme ==
    /\ cfg \in Configs({ carol },
                       { PathProvision, PathDeploy, PathRootedProvision, PathRootedDeploy },
                       { "" })
    /\ ~cfg.Restricted
    /\ reader = NewReader(ReadmeCodeOwners)
    /\ reaction \in AwardEmojis({ username1, username2, username3, username4 })
    /\ reaction.UpdatedAt = 1

\* Scenario 3 of the specification: sibling directories.
InitSibling ==
    /\ cfg \in Configs({ carol }, { PathRootedDeploy, PathRootedProvision }, { "" })
    /\ ~cfg.Restricted
    /\ reader = NewReader(SiblingCodeOwners)
    /\ reaction \in AwardEmojis({ user2, user3 })
    /\ reaction.UpdatedAt = 1

\* Texts of lines CheckApproval skips, with at most one rule among them.
IgnoredLines ==
    { LineComment, LineBlank, LineOneToken, LineOneBadToken, << >> }

IgnoredTexts ==
    { JoinLines[ls] : ls \in SeqsUpTo(IgnoredLines \cup { LineStarAlice }, MaxLines + 1) }

InitIgnored ==
    /\ cfg \in Configs({ carol }, { PathAB, PathC }, { "" })
    /\ ~cfg.Restricted
    /\ reader \in Readers(IgnoredTexts)
    /\ reaction \in AwardEmojis({ alice, bob })
    /\ reaction.UpdatedAt = 1

InitCheck ==
    /\ pc = "CheckApproval"
    /\ Idle
    /\ result = NoResult
    /\ (InitGeneric \/ InitReadme \/ InitSibling \/ InitIgnored)

\* A behaviour is either a run of the gate or one direct call of the processor.
Init == InitRun \/ InitCheck

\* One collaborator call: the operation, the project id and the repository
\* name or branch it was given, and whether it succeeded.
Call(op, id, ref, ok) ==
    [ op |-> op, id |-> id, ref |-> ref, path |-> "", ok |-> ok ]

\* client.GetFileContent(projectID, branch, filePath)
FileCall(id, branch, path, ok) ==
    [ op |-> "GetFileContent", id |-> id, ref |-> branch, path |-> path, ok |-> ok ]

\* The older revision's source: the other repository's id with the base
\* project's default branch.
FileSourceBaseBranch(c, base) ==
    IF c.CodeOwnersRepo # ""
    THEN [ ID |-> CodeOwnersProject.ID, DefaultBranch |-> base.DefaultBranch ]
    ELSE base

\* The project whose id and default branch GetFileContent is given.
FileSource(c, base) ==
    IF c.CodeOwnersRepo # "" THEN CodeOwnersProject ELSE base

\* ProcessMR returns (approved, e) to Run.
Return(approved, e) ==
    /\ ret' = [ approved |-> approved, err |-> e ]
    /\ pc' = "Run"

\* A failure that is swallowed: not approved, and no error.
FailSilently(e) == Return(FALSE, NilErr)

\* "return false, fmt.Errorf(...)": the run is abandoned with an error.
Fail(e) == Return(FALSE, e)

\* ProcessMR: client.GetProject(BaseRepoOwner/BaseRepoName)
GetProject ==
    /\ pc = "ProcessMR"
    /\ \/ /\ calls' = Append(calls, Call("GetProject", 0, cfg.BaseRepo, TRUE))
          /\ project' = BaseProject
          /\ pc' = "fetchCodeOwnersContent"
          /\ UNCHANGED ret
       \/ /\ calls' = Append(calls, Call("GetProject", 0, cfg.BaseRepo, FALSE))
          /\ Fail(Wrap("failed to get project", NewErr("api error")))
          /\ UNCHANGED project
    /\ UNCHANGED << cfg, codeOwnersContent, reactions, lastCommitTimestamp, idx,
                    checked, approver, exitCode, reader, reaction, result,
                    owners, approvedBy >>

\* fetchCodeOwnersContent: GetProject(cfg.CodeOwnersRepo) when it is set, then
\* GetFileContent on that project, or on the base project when it is not.
fetchCodeOwnersContent ==
    /\ pc = "fetchCodeOwnersContent"
    /\ \E repoOk \in BOOLEAN, fileOk \in BOOLEAN, content \in FileContents :
          LET useRepo == cfg.CodeOwnersRepo # ""
              src == FileSource(cfg, project)
              first == IF useRepo
                       THEN << Call("GetProject", 0, cfg.CodeOwnersRepo, repoOk) >>
                       ELSE << >>
              file == << FileCall(src.ID, src.DefaultBranch, cfg.CodeOwnersPath, fileOk) >>
          IN  IF useRepo /\ ~repoOk
              THEN /\ fileOk /\ content = << >>
                   /\ calls' = calls \o first
                   /\ Fail(Wrap("failed to fetch CODEOWNERS file",
                               Wrap("failed to get codeowners project",
                                    NewErr("api error"))))
                   /\ UNCHANGED codeOwnersContent
              ELSE /\ (~useRepo => repoOk)
                   /\ calls' = calls \o first \o file
                   /\ IF fileOk
                      THEN /\ codeOwnersContent' = content
                           /\ pc' = "CheckMandatoryApproval"
                           /\ UNCHANGED ret
                      ELSE /\ content = << >>
                           /\ Fail(Wrap("failed to fetch CODEOWNERS file",
                                       NewErr("file not found")))
                           /\ UNCHANGED codeOwnersContent
    /\ UNCHANGED << cfg, project, reactions, lastCommitTimestamp, idx, checked,
                    approver, exitCode, reader, reaction, result,
                    owners, approvedBy >>

\* The timestamp fetched in every mode.
FetchesTimestampAlways(c, rs) == TRUE

\* The timestamp fetched only when there are reactions to compare it with.
FetchesTimestampIfAny(c, rs) == c.Restricted /\ rs # << >>

\* "if cfg.Restricted": the latest commit timestamp is fetched, whatever the
\* reactions listed.
FetchesTimestamp(c, rs) == c.Restricted

\* CheckMandatoryApproval, up to its loop: ListAwardEmojis, then, in
\* restricted mode, GetLatestCommitTimestamp.
ListAwardEmojis ==
    /\ pc = "CheckMandatoryApproval"
    /\ \E listOk \in BOOLEAN, tsOk \in BOOLEAN,
          rs \in SeqsUpTo(AwardEmojis({ alice, bob }), MaxReactions),
          ts \in Instants :
          LET list == << Call("ListAwardEmojis", project.ID, "", listOk) >>
              commit == << Call("GetLatestCommitTimestamp", project.ID, "", tsOk) >>
          IN  IF ~listOk
              THEN /\ tsOk /\ rs = << >> /\ ts = 1
                   /\ calls' = calls \o list
                   /\ Fail(Wrap("failed to fetch reactions", NewErr("api error")))
                   /\ UNCHANGED << reactions, lastCommitTimestamp, idx >>
              ELSE IF FetchesTimestamp(cfg, rs) /\ ~tsOk
              THEN /\ ts = 1
                   /\ calls' = calls \o list \o commit
                   /\ reactions' = rs
                   /\ Fail(Wrap("failed to fetch latest commit timestamp",
                               NewErr("no commits found")))
                   /\ UNCHANGED << lastCommitTimestamp, idx >>
              ELSE /\ (~FetchesTimestamp(cfg, rs) => tsOk /\ ts = 1)
                   /\ calls' = calls \o list
                                \o (IF FetchesTimestamp(cfg, rs) THEN commit ELSE << >>)
                   /\ reactions' = rs
                   /\ lastCommitTimestamp' =
                          IF FetchesTimestamp(cfg, rs) THEN ts ELSE ZeroTime
                   /\ idx' = 1
                   /\ pc' = "range reactions"
                   /\ UNCHANGED ret
    /\ UNCHANGED << cfg, project, codeOwnersContent, checked, approver, exitCode,
                    reader, reaction, result,
                    owners, approvedBy >>

\* The loop going on after an approval instead of returning.
IterateNoStop ==
    /\ pc = "range reactions"
    /\ idx <= Len(reactions)
    /\ LET r == reactions[idx]
       IN  IF cfg.Restricted /\ Before(r.UpdatedAt, lastCommitTimestamp)
           THEN /\ idx' = idx + 1
                /\ UNCHANGED << pc, checked, approver, ret >>
           ELSE \E got \in { CheckApproval(NewReader(codeOwnersContent), r, cfg) } :
                    /\ checked' = Append(checked, idx)
                    /\ IF got.err # NilErr
                       THEN /\ Fail(Wrap("error during approval check", got.err))
                            /\ UNCHANGED << idx, approver >>
                       ELSE /\ idx' = idx + 1
                            /\ approver' = IF got.approved /\ approver = 0
                                           THEN idx
                                           ELSE approver
                            /\ IF idx = Len(reactions) /\ approver' # 0
                               THEN Return(TRUE, NilErr)
                               ELSE UNCHANGED << pc, ret >>
    /\ UNCHANGED << cfg, calls, project, codeOwnersContent, reactions,
                    lastCommitTimestamp, exitCode, reader, reaction, result,
                    owners, approvedBy >>

\* The loop ended by a stale reaction instead of going on.
IterateBreakOnStale ==
    /\ pc = "range reactions"
    /\ idx <= Len(reactions)
    /\ LET r == reactions[idx]
       IN  IF cfg.Restricted /\ Before(r.UpdatedAt, lastCommitTimestamp)
           THEN /\ idx' = Len(reactions) + 1
                /\ UNCHANGED << pc, checked, approver, ret >>
           ELSE \E got \in { CheckApproval(NewReader(codeOwnersContent), r, cfg) } :
                    /\ checked' = Append(checked, idx)
                    /\ IF got.err # NilErr
                       THEN /\ Fail(Wrap("error during approval check", got.err))
                            /\ UNCHANGED << idx, approver >>
                       ELSE IF got.approved
                       THEN /\ approver' = idx
                            /\ Return(TRUE, NilErr)
                            /\ UNCHANGED idx
                       ELSE /\ idx' = idx + 1
                            /\ UNCHANGED << pc, approver, ret >>
    /\ UNCHANGED << cfg, calls, project, codeOwnersContent, reactions,
                    lastCommitTimestamp, exitCode, reader, reaction, result,
                    owners, approvedBy >>

\* One reader made before the loop and handed to every CheckApproval: once
\* an evaluation has scanned it, the later ones find it at its end.
IterateSharedReader ==
    /\ pc = "range reactions"
    /\ idx <= Len(reactions)
    /\ LET r == reactions[idx]
           consumed == \E k \in 1..Len(checked) :
                          /\ reactions[checked[k]].Name = cfg.ApproveEmoji
                          /\ ~IsSelfApproval(reactions[checked[k]], cfg)
           left == IF consumed THEN << >> ELSE codeOwnersContent
       IN  IF cfg.Restricted /\ Before(r.UpdatedAt, lastCommitTimestamp)
           THEN /\ idx' = idx + 1
                /\ UNCHANGED << pc, checked, approver, ret >>
           ELSE \E got \in { CheckApproval(NewReader(left), r, cfg) } :
                    /\ checked' = Append(checked, idx)
                    /\ IF got.err # NilErr
                       THEN /\ Fail(Wrap("error during approval check", got.err))
                            /\ UNCHANGED << idx, approver >>
                       ELSE IF got.approved
                       THEN /\ approver' = idx
                            /\ Return(TRUE, NilErr)
                            /\ UNCHANGED idx
                       ELSE /\ idx' = idx + 1
                            /\ UNCHANGED << pc, approver, ret >>
    /\ UNCHANGED << cfg, calls, project, codeOwnersContent, reactions,
                    lastCommitTimestamp, exitCode, reader, reaction, result,
                    owners, approvedBy >>

\* One iteration of the loop over the reactions.
Iterate ==
    /\ pc = "range reactions"
    /\ idx <= Len(reactions)
    /\ LET r == reactions[idx]
       IN  IF cfg.Restricted /\ Before(r.UpdatedAt, lastCommitTimestamp)
           THEN /\ idx' = idx + 1
                /\ UNCHANGED << pc, checked, approver, ret >>
           ELSE \E got \in { CheckApproval(NewReader(codeOwnersContent), r, cfg) } :
                    /\ checked' = Append(checked, idx)
                    /\ IF got.err # NilErr
                       THEN /\ Fail(Wrap("error during approval check", got.err))
                            /\ UNCHANGED << idx, approver >>
                       ELSE IF got.approved
                       THEN /\ approver' = idx
                            /\ Return(TRUE, NilErr)
                            /\ UNCHANGED idx
                       ELSE /\ idx' = idx + 1
                            /\ UNCHANGED << pc, approver, ret >>
    /\ UNCHANGED << cfg, calls, project, codeOwnersContent, reactions,
                    lastCommitTimestamp, exitCode, reader, reaction, result,
                    owners, approvedBy >>

\* The end of the loop taken for a failure.
NotFoundAsError ==
    /\ pc = "range reactions"
    /\ idx > Len(reactions)
    /\ Fail(NewErr("mandatory approval not found"))
    /\ UNCHANGED << cfg, calls, project, codeOwnersContent, reactions,
                    lastCommitTimestamp, idx, checked, approver, exitCode,
                    reader, reaction, result,
                    owners, approvedBy >>

\* The loop ends without an approval: "Mandatory approval not found".
NotFound ==
    /\ pc = "range reactions"
    /\ idx > Len(reactions)
    /\ Return(FALSE, NilErr)
    /\ UNCHANGED << cfg, calls, project, codeOwnersContent, reactions,
                    lastCommitTimestamp, idx, checked, approver, exitCode,
                    reader, reaction, result,
                    owners, approvedBy >>

\* Run maps what ProcessMR returned to the exit code.
\* An exit code that reports errors only, not the verdict.
ExitCodeOfErrOnly(approved, e) ==
    IF e # NilErr THEN 1 ELSE 0

ExitCode(approved, e) ==
    IF e # NilErr THEN 1 ELSE IF approved THEN 0 ELSE 1

Run ==
    /\ pc = "Run"
    /\ exitCode' = ExitCode(ret.approved, ret.err)
    /\ pc' = "exit"
    /\ UNCHANGED << cfg, calls, project, codeOwnersContent, reactions,
                    lastCommitTimestamp, idx, checked, approver, ret,
                    reader, reaction, result,
                    owners, approvedBy >>

\* The processor called directly, as its unit test does.
CallCheckApproval ==
    /\ pc = "CheckApproval"
    /\ result' = CheckApproval(reader, reaction, cfg)
    /\ pc' = "checked"
    /\ UNCHANGED << cfg, calls, project, codeOwnersContent, reactions,
                    lastCommitTimestamp, idx, checked, approver, ret, exitCode,
                    reader, reaction,
                    owners, approvedBy >>

Next ==
    \/ GetProject
    \/ fetchCodeOwnersContent
    \/ ListAwardEmojis
    \/ Iterate
    \/ NotFound
    \/ Run
    \/ CallCheckApproval

Spec == Init /\ [][Next]_vars

\* A run of the gate alone, from the entry of ProcessMR to the exit.
NextRun ==
    \/ GetProject
    \/ fetchCodeOwnersContent
    \/ ListAwardEmojis
    \/ Iterate
    \/ NotFound
    \/ Run

SpecRun == InitRun /\ [][NextRun]_vars

\* The loop of CheckMandatoryApproval as a function of the list it ranges
\* over: what it returns for the reactions rs when proc.CheckApproval
\* answers got[k] for rs[k].
RECURSIVE RangeReactions(_, _, _, _)
RangeReactions(rs, got, c, ts) ==
    IF rs = << >>
    THEN [ approved |-> FALSE, err |-> NilErr ]
    ELSE IF c.Restricted /\ Before(Head(rs).UpdatedAt, ts)
    THEN RangeReactions(Tail(rs), Tail(got), c, ts)
    ELSE IF Head(got).err # NilErr
    THEN [ approved |-> FALSE, err |-> Wrap("error during approval check", Head(got).err) ]
    ELSE IF Head(got).approved
    THEN [ approved |-> TRUE, err |-> NilErr ]
    ELSE RangeReactions(Tail(rs), Tail(got), c, ts)

(***************************************************************************)
(* The collect-all orchestrator of the earlier revision: the CODEOWNERS     *)
(* text is parsed once into entries, every reaction is tried against every *)
(* entry, and the approvers are collected.                                 *)
(***************************************************************************)
\* processor.CodeOwner
CodeOwner(path, owner) == [ Path |-> path, Owner |-> owner ]

\* The entries of one rule line: one for each owner it names.
EntriesOf(parts) ==
    [ j \in 1..(Len(parts) - 1) |->
          CodeOwner(parts[1], TrimPrefix(parts[j + 1], << "@" >>)) ]

\* ParseCodeOwners over the lines still to be read.
ParseLines[lines \in Seq(Chars)] ==
    LET Rule(parts) ==
            IF Len(parts) < 2
            THEN ParseLines[Tail(lines)]
            ELSE EntriesOf(parts) \o ParseLines[Tail(lines)]
        Line(line) ==
            IF line = << >> \/ HasPrefix(line, << "#" >>)
            THEN ParseLines[Tail(lines)]
            ELSE Rule(Fields(line))
    IN  IF lines = << >> THEN << >> ELSE Line(TrimSpace(Head(lines)))

\* processor.ParseCodeOwners(reader): the entries in file order, or the
\* scanner's error.
ParseCodeOwners(r) ==
    IF r.fail
    THEN [ owners |-> << >>,
           err |-> Wrap("error reading CODEOWNERS content", NewErr("simulated read error")) ]
    ELSE [ owners |-> ParseLines[ScanLines(r.data)], err |-> NilErr ]

\* filepath.ToSlash: every separator becomes a slash.
ToSlash(path) ==
    [ k \in 1..Len(path) |-> IF path[k] = Separator THEN "/" ELSE path[k] ]

\* The path as it is compared: separators normalized, a leading slash
\* stripped.
Comparable(path) == TrimPrefix(ToSlash(path), << "/" >>)

\* processor.CanApprove(owner, reaction, cfg)
CanApprove(owner, r, c) ==
    /\ r.Name = c.ApproveEmoji
    /\ r.Username = owner.Owner
    /\ c.Insecure \/ r.Username # c.MrAuthor
    /\ \/ owner.Path = << "*" >>
       \/ HasPrefix(Comparable(c.TerraformPath), Comparable(owner.Path))

\* The inner loop stopped at the first entry that names the user: a later
\* entry that lets the reaction approve is never tried.
ApprovalsOfFirstEntry(os, r, c, ts) ==
    LET Names(o) == o.Owner = r.Username
        named == SelectSeq(os, Names)
    IN  IF /\ named # << >>
           /\ CanApprove(named[1], r, c)
           /\ ~(c.Restricted /\ Before(r.UpdatedAt, ts))
        THEN << r.Username >>
        ELSE << >>

\* The inner loop of filterApprovals: the reaction's username once for each
\* entry that lets it approve, none when the reaction is outdated.
ApprovalsOf(os, r, c, ts) ==
    LET Counts(o) == CanApprove(o, r, c) /\ ~(c.Restricted /\ Before(r.UpdatedAt, ts))
    IN  [ k \in 1..Len(SelectSeq(os, Counts)) |-> r.Username ]

\* filterApprovals(owners, reactions, cfg, lastCommitTimestamp, processor)
RECURSIVE filterApprovals(_, _, _, _)
filterApprovals(rs, os, c, ts) ==
    IF rs = << >>
    THEN << >>
    ELSE ApprovalsOf(os, Head(rs), c, ts) \o filterApprovals(Tail(rs), os, c, ts)

\* The CODEOWNERS texts and the directories the collect-all gate is run on.
CollectPool == { LineStarAlice, LineTopBob, LineSubAlice, LineComment }

CollectTexts == { JoinLines[ls] : ls \in SeqsUpTo(CollectPool, MaxLines) }

CollectPaths == { PathAB, PathRootedAB, PathC }

\* CheckMandatoryApproval is entered with the project and the text fetched.
InitCollect ==
    /\ cfg \in Configs({ bob }, CollectPaths, { "" })
    /\ pc = "CheckMandatoryApproval"
    /\ calls = << >>
    /\ project = BaseProject
    /\ codeOwnersContent \in CollectTexts
    /\ reactions = << >>
    /\ lastCommitTimestamp = ZeroTime
    /\ idx = 0
    /\ checked = << >>
    /\ approver = 0
    /\ ret = NoResult
    /\ exitCode = -1
    /\ owners = << >>
    /\ approvedBy = << >>
    /\ reader = NewReader(<< >>)
    /\ reaction = NoReaction
    /\ result = NoResult

\* CheckMandatoryApproval: processor.ParseCodeOwners(strings.NewReader(content))
CallParseCodeOwners ==
    /\ pc = "CheckMandatoryApproval"
    /\ \E parsed \in { ParseCodeOwners(NewReader(codeOwnersContent)) } :
           IF parsed.err # NilErr
           THEN /\ Fail(Wrap("failed to parse CODEOWNERS", parsed.err))
                /\ UNCHANGED owners
           ELSE /\ owners' = parsed.owners
                /\ pc' = "ListAwardEmojis"
                /\ UNCHANGED ret
    /\ UNCHANGED << cfg, calls, project, codeOwnersContent, reactions,
                    lastCommitTimestamp, idx, checked, approver, exitCode,
                    reader, reaction, result, approvedBy >>

\* CheckMandatoryApproval: ListAwardEmojis, then, in restricted mode,
\* GetLatestCommitTimestamp.
CallListAwardEmojis ==
    /\ pc = "ListAwardEmojis"
    /\ \E listOk \in BOOLEAN, tsOk \in BOOLEAN,
          rs \in SeqsUpTo(AwardEmojis({ alice, bob }), MaxReactions),
          ts \in Instants :
          LET list == << Call("ListAwardEmojis", project.ID, "", listOk) >>
              commit == << Call("GetLatestCommitTimestamp", project.ID, "", tsOk) >>
          IN  IF ~listOk
              THEN /\ tsOk /\ rs = << >> /\ ts = 1
                   /\ calls' = calls \o list
                   /\ Fail(Wrap("failed to fetch reactions", NewErr("api error")))
                   /\ UNCHANGED << reactions, lastCommitTimestamp >>
              ELSE IF cfg.Restricted /\ ~tsOk
              THEN /\ ts = 1
                   /\ calls' = calls \o list \o commit
                   /\ reactions' = rs
                   /\ Fail(Wrap("failed to fetch latest commit timestamp",
                               NewErr("no commits found")))
                   /\ UNCHANGED lastCommitTimestamp
              ELSE /\ (~cfg.Restricted => tsOk /\ ts = 1)
                   /\ calls' = calls \o list \o (IF cfg.Restricted THEN commit ELSE << >>)
                   /\ reactions' = rs
                   /\ lastCommitTimestamp' = IF cfg.Restricted THEN ts ELSE ZeroTime
                   /\ pc' = "filterApprovals"
                   /\ UNCHANGED ret
    /\ UNCHANGED << cfg, project, codeOwnersContent, idx, checked, approver,
                    exitCode, reader, reaction, result, owners, approvedBy >>

\* CheckMandatoryApproval: filterApprovals, and the verdict from its list.
CallFilterApprovals ==
    /\ pc = "filterApprovals"
    /\ approvedBy' = filterApprovals(reactions, owners, cfg, lastCommitTimestamp)
    /\ Return(Len(approvedBy') > 0, NilErr)
    /\ UNCHANGED << cfg, calls, project, codeOwnersContent, reactions,
                    lastCommitTimestamp, idx, checked, approver, exitCode,
                    reader, reaction, result, owners >>

NextCollect ==
    \/ CallParseCodeOwners
    \/ CallListAwardEmojis
    \/ CallFilterApprovals
    \/ Run

SpecCollect == InitCollect /\ [][NextCollect]_vars

(***************************************************************************)
(* Ownership stated declaratively, for the properties below: the rule      *)
(* lines of a text, and the owners the last matching one names.            *)
(***************************************************************************)
IsRuleLine(line) ==
    /\ TrimSpace(line) # << >>
    /\ TrimSpace(line)[1] # "#"
    /\ Len(Fields(line)) >= 2

\* The rule lines of text, in file order, each as its fields.
ParseRules(text) ==
    LET rules == SelectSeq(ScanLines(text), IsRuleLine)
    IN  [ k \in 1..Len(rules) |-> Fields(rules[k]) ]

\* Every text a behaviour can hold, and its rule lines, parsed once.
KnownTexts ==
    Texts \cup IgnoredTexts \cup FileContents \cup CollectTexts
        \cup { ReadmeCodeOwners, SiblingCodeOwners }

RulesTable == [ text \in KnownTexts |-> ParseRules(text) ]

RulesOf(text) ==
    IF text \in KnownTexts THEN RulesTable[text] ELSE ParseRules(text)

\* No rule line of text has a malformed pattern.
WellFormed(text) ==
    LET rules == RulesOf(text)
    IN  \A k \in 1..Len(rules) :
            \/ rules[k][1] = << "*" >>
            \/ ~Match(rules[k][1], << >>).err

Applies(rule, path) ==
    \/ rule[1] = << "*" >>
    \/ Match(rule[1], path).matched

Named(rule) == { TrimPrefix(rule[j], << "@" >>) : j \in 2..Len(rule) }

\* The positions of the rules that apply to the cleaned path.
Applying(rules, path) ==
    LET clean == Clean(path)
    IN  { k \in 1..Len(rules) : Applies(rules[k], clean) }

\* The owners resolved for path: those of the last rule that applies.
OwnersOf(text, path) ==
    LET rules == RulesOf(text)
        applying == Applying(rules, path)
    IN  IF applying = { }
        THEN { }
        ELSE Named(rules[CHOOSE k \in applying : \A j \in applying : j <= k])

\* ProcessMR has returned.
Returned == pc \in { "Run", "exit" }

\* No collaborator call of the run failed.
NoCallFailed == \A k \in 1..Len(calls) : calls[k].ok

\* The reaction is a valid mandatory approval.
ValidFor(r, resolved) ==
    /\ r.Name = cfg.ApproveEmoji
    /\ cfg.Insecure \/ r.Username # cfg.MrAuthor
    /\ r.Username \in resolved
    /\ ~cfg.Restricted \/ r.UpdatedAt >= lastCommitTimestamp

ValidApproval(r) == ValidFor(r, OwnersOf(codeOwnersContent, cfg.TerraformPath))

\* C1: when no collaborator call fails and the CODEOWNERS text is
\* well-formed, the run is approved exactly when some fetched reaction has
\* the approve emoji, is not the author's own (unless insecure), is by an
\* owner resolved for the target path and, in restricted mode, is not older
\* than the latest commit; otherwise it is not approved, without an error.
C1_ApprovedIffValidReaction ==
    (Returned /\ NoCallFailed /\ WellFormed(codeOwnersContent))
        => LET resolved == OwnersOf(codeOwnersContent, cfg.TerraformPath)
           IN  /\ ret.err = NilErr
               /\ ret.approved
                      <=> \E i \in 1..Len(reactions) : ValidFor(reactions[i], resolved)

C1_Witness ==
    /\ pc = "exit"
    /\ NoCallFailed
    /\ WellFormed(codeOwnersContent)
    /\ ret.approved
    /\ Len(reactions) = 2
    /\ ~ValidApproval(reactions[1])
    /\ ValidApproval(reactions[2])
    /\ cfg.Restricted

\* C2: a reaction by the merge request author is never approved by
\* CheckApproval while Insecure is false, whatever the CODEOWNERS text, the
\* target path and the emoji; so a run with Insecure false is never approved
\* by the author's own reaction.
C2_NoSelfApproval ==
    /\ (pc = "checked" /\ ~cfg.Insecure /\ reaction.Username = cfg.MrAuthor)
           => result = [ approved |-> FALSE, err |-> NilErr ]
    /\ (approver # 0 /\ ~cfg.Insecure)
           => reactions[approver].Username # cfg.MrAuthor

C2_Witness ==
    /\ pc = "checked"
    /\ ~cfg.Insecure
    /\ reaction.Username = cfg.MrAuthor
    /\ reaction.Name = cfg.ApproveEmoji
    /\ ~reader.fail
    /\ WellFormed(reader.data)
    /\ reaction.Username \in OwnersOf(reader.data, cfg.TerraformPath)
    /\ ~result.approved

\* The reaction is valid but for its age.
OtherwiseValidFor(r, resolved) ==
    /\ r.Name = cfg.ApproveEmoji
    /\ cfg.Insecure \/ r.Username # cfg.MrAuthor
    /\ r.Username \in resolved

OtherwiseValid(r) ==
    OtherwiseValidFor(r, OwnersOf(codeOwnersContent, cfg.TerraformPath))

Stale(r) == r.UpdatedAt < lastCommitTimestamp

\* C3: in restricted mode a reaction older than the latest commit never
\* grants the approval, and when every otherwise valid reaction is stale the
\* run is not approved.
C3_StaleNeverApproves ==
    cfg.Restricted
        => /\ approver # 0 => ~Stale(reactions[approver])
           /\ (Returned /\ ret.approved)
                  => LET resolved == OwnersOf(codeOwnersContent, cfg.TerraformPath)
                     IN  \E i \in 1..Len(reactions) :
                             /\ OtherwiseValidFor(reactions[i], resolved)
                             /\ ~Stale(reactions[i])

C3_Witness ==
    /\ pc = "exit"
    /\ cfg.Restricted
    /\ NoCallFailed
    /\ WellFormed(codeOwnersContent)
    /\ \E i \in 1..Len(reactions) : OtherwiseValid(reactions[i]) /\ Stale(reactions[i])
    /\ \A i \in 1..Len(reactions) : OtherwiseValid(reactions[i]) => Stale(reactions[i])
    /\ ret = [ approved |-> FALSE, err |-> NilErr ]

\* C4: when a collaborator call of ProcessMR fails, ProcessMR returns an
\* error and approved = false; never approved, never (false, nil).
C4_FailClosed ==
    (Returned /\ ~NoCallFailed) => (ret.err # NilErr /\ ~ret.approved)

C4_Witness ==
    /\ pc = "exit"
    /\ Len(calls) = 5
    /\ calls[5].op = "GetLatestCommitTimestamp"
    /\ ~calls[5].ok
    /\ \E i \in 1..Len(reactions) : OtherwiseValid(reactions[i])
    /\ ret.err # NilErr
    /\ ~ret.approved

\* C5: Run returns 0 exactly when ProcessMR returned approved with no error,
\* and 1 in every other case; it returns no other code.
C5_ExitCode ==
    pc = "exit"
        => /\ exitCode \in { 0, 1 }
           /\ exitCode = 0 <=> (ret.approved /\ ret.err = NilErr)

C5_Witness ==
    /\ pc = "exit"
    /\ exitCode = 0
    /\ ret.approved

\* The processor was called on a readable, well-formed text with a reaction
\* that passes the emoji and the self-approval rules.
CheckedOwnership ==
    /\ pc = "checked"
    /\ ~reader.fail
    /\ reaction.Name = cfg.ApproveEmoji
    /\ cfg.Insecure \/ reaction.Username # cfg.MrAuthor
    /\ WellFormed(reader.data)

HasRule(text, rule) == \E k \in 1..Len(RulesOf(text)) : RulesOf(text)[k] = rule

\* C7: when the text has the rule "* @alice", alice is an owner for every
\* target path, whatever the other rules are: her approve reaction (she is
\* not the author) is approved.
C7_WildcardOwnerAlways ==
    (/\ CheckedOwnership
     /\ HasRule(reader.data, << << "*" >>, << "@" >> \o alice >>)
     /\ reaction.Username = alice)
        => result.approved

\* C8: with the README's CODEOWNERS, username4 (owner of /terraform) can
\* approve a change in /terraform/provision and one in /terraform/deploy;
\* username2 can approve the former and username3 the latter.
C8_ReadmePermissions ==
    (/\ CheckedOwnership
     /\ reader.data = ReadmeCodeOwners)
        => /\ (/\ reaction.Username = username4
               /\ cfg.TerraformPath \in { PathRootedProvision, PathRootedDeploy })
                  => result.approved
           /\ (reaction.Username = username2 /\ cfg.TerraformPath = PathRootedProvision)
                  => result.approved
           /\ (reaction.Username = username3 /\ cfg.TerraformPath = PathRootedDeploy)
                  => result.approved

\* C9: a user named only by the rule of a sibling directory is not approved:
\* with rules for /terraform/provision (user2) and /terraform/deploy (user3)
\* and the target /terraform/deploy, user2's approve reaction is rejected
\* and user3's is approved.
C9_SiblingNotApproved ==
    (/\ pc = "checked"
     /\ reader = NewReader(SiblingCodeOwners)
     /\ cfg.TerraformPath = PathRootedDeploy
     /\ reaction.Name = cfg.ApproveEmoji)
        => /\ reaction.Username = user2
                  => result = [ approved |-> FALSE, err |-> NilErr ]
           /\ reaction.Username = user3
                  => result = [ approved |-> TRUE, err |-> NilErr ]

C9_Witness ==
    /\ pc = "checked"
    /\ reader = NewReader(SiblingCodeOwners)
    /\ cfg.TerraformPath = PathRootedDeploy
    /\ reaction.Name = cfg.ApproveEmoji
    /\ reaction.Username = user2
    /\ ~result.approved

\* The processor was called on a text whose only rule is the given one.
CheckedSingleRule(rule) ==
    /\ pc = "checked"
    /\ reaction.Username = TrimPrefix(rule[2], << "@" >>)
    /\ CheckedOwnership
    /\ RulesOf(reader.data) = << rule >>

PrefixAB == << "a", "/", "b", "/" >>

\* The cleaned target path lies below a/b/, at any depth.
DescendantOfAB == HasPrefix(Clean(cfg.TerraformPath), PrefixAB)

\* The cleaned target path is an entry of a/b/ itself.
ChildOfAB ==
    /\ DescendantOfAB
    /\ ~Contains(Drop(Clean(cfg.TerraformPath), Len(PrefixAB)), Separator)

\* C10 as claimed: a rule applies if its pattern is "*" or matches by glob,
\* where a/b/* matches every descendant of a/b/, children and deeper alike.
C10_DeepGlob ==
    /\ CheckedSingleRule(Fields(LineStarAlice)) => result.approved
    /\ CheckedSingleRule(Fields(LineDeepBob)) => (result.approved <=> DescendantOfAB)

\* C10 as amended: a rule applies if its pattern is "*" or matches by glob,
\* where the star of a/b/* matches no separator: a/b/* matches the direct
\* children of a/b/ and no deeper path.
C10_ChildGlob ==
    /\ CheckedSingleRule(Fields(LineStarAlice)) => result.approved
    /\ CheckedSingleRule(Fields(LineDeepBob)) => (result.approved <=> ChildOfAB)

C10_Witness ==
    /\ CheckedSingleRule(Fields(LineDeepBob))
    /\ DescendantOfAB
    /\ ~ChildOfAB
    /\ ~result.approved

\* The pattern of the first rule line of text that is malformed.
FirstMalformed(text) ==
    LET rules == RulesOf(text)
        bad == { k \in 1..Len(rules) : Match(rules[k][1], << >>).err }
    IN  rules[CHOOSE k \in bad : \A j \in bad : k <= j][1]

\* The invalid-pattern error for pattern, as CheckApproval returns it.
InvalidPattern(pattern) ==
    [ chain |-> << "invalid pattern in CODEOWNERS", "syntax error in pattern" >>,
      pattern |-> pattern ]

\* The reaction gets as far as the CODEOWNERS text: it is not skipped as
\* stale, has the approve emoji and is not a forbidden self-approval.
Reaches(r) ==
    /\ ~cfg.Restricted \/ r.UpdatedAt >= lastCommitTimestamp
    /\ r.Name = cfg.ApproveEmoji
    /\ cfg.Insecure \/ r.Username # cfg.MrAuthor

\* A run that fetched a CODEOWNERS text with a malformed rule, no call failing.
ReturnedMalformed ==
    /\ Returned
    /\ NoCallFailed
    /\ ~WellFormed(codeOwnersContent)

\* C11 as claimed: whenever the text has a rule line with a malformed
\* pattern, the decision fails with the invalid-pattern error, for every
\* target path and every list of reactions; never a plain "not approved".
C11_MalformedAlwaysFails ==
    ReturnedMalformed
        => ret = [ approved |-> FALSE,
                   err |-> Wrap("error during approval check",
                                InvalidPattern(FirstMalformed(codeOwnersContent))) ]

\* C11, what the code does: the text is parsed inside CheckApproval only.
\* When the text has a rule line with a malformed pattern, CheckApproval
\* fails, for every target path, with the invalid-pattern error carrying
\* the first such pattern for every reaction that has the approve emoji and
\* is not a forbidden self-approval; the run propagates it as an error when
\* some fetched reaction gets that far (and is not skipped as stale), and
\* otherwise ends not approved without an error.
C11_MalformedFailsWhenRead ==
    /\ (/\ pc = "checked"
        /\ ~reader.fail
        /\ reaction.Name = cfg.ApproveEmoji
        /\ cfg.Insecure \/ reaction.Username # cfg.MrAuthor
        /\ ~WellFormed(reader.data))
           => result = [ approved |-> FALSE,
                         err |-> InvalidPattern(FirstMalformed(reader.data)) ]
    /\ ReturnedMalformed
           => ret = [ approved |-> FALSE,
                      err |-> IF \E i \in 1..Len(reactions) : Reaches(reactions[i])
                              THEN Wrap("error during approval check",
                                        InvalidPattern(FirstMalformed(codeOwnersContent)))
                              ELSE NilErr ]

C11_Witness ==
    /\ ReturnedMalformed
    /\ pc = "exit"
    /\ Len(reactions) = 2
    /\ ~Reaches(reactions[1])
    /\ Reaches(reactions[2])
    /\ ret.err.pattern = << "[", "a" >>
    /\ exitCode = 1

\* The processor was called on a readable text without malformed patterns.
CheckedReadable ==
    /\ pc = "checked"
    /\ ~reader.fail
    /\ WellFormed(reader.data)

\* C12: policy rejections are not errors: on a readable text without
\* malformed patterns CheckApproval returns a nil error for every reaction,
\* target path and policy; a wrong emoji, a self-approval, a user who is not
\* an owner and a path no rule matches all give (false, nil).
C12_RejectionsAreNotErrors ==
    CheckedReadable
        => /\ result.err = NilErr
           /\ (\/ reaction.Name # cfg.ApproveEmoji
               \/ (~cfg.Insecure /\ reaction.Username = cfg.MrAuthor)
               \/ reaction.Username \notin OwnersOf(reader.data, cfg.TerraformPath)
               \/ Applying(RulesOf(reader.data), cfg.TerraformPath) = { })
                  => result = [ approved |-> FALSE, err |-> NilErr ]

C12_Witness ==
    /\ CheckedReadable
    /\ reaction.Name = cfg.ApproveEmoji
    /\ reaction.Username # cfg.MrAuthor
    /\ Len(RulesOf(reader.data)) = 2
    /\ Applying(RulesOf(reader.data), cfg.TerraformPath) = { }
    /\ reaction.Username \in Named(RulesOf(reader.data)[1])
    /\ result = [ approved |-> FALSE, err |-> NilErr ]

\* The line is skipped by CheckApproval: blank, a comment, or fewer than
\* two fields.
IsIgnoredLine(line) == ~IsRuleLine(line)

\* The text with the skipped lines taken out.
RuleLinesOnly(text) == JoinLines[SelectSeq(ScanLines(text), IsRuleLine)]

\* C13: blank lines, lines starting with "#" and lines of fewer than two
\* fields contribute no owners and cause no error, even when the one field
\* is no valid pattern: CheckApproval returns what it returns on the text
\* without them, and on a text made of such lines only every reaction is
\* not approved with no error.
C13_IgnoredLines ==
    (pc = "checked" /\ ~reader.fail)
        => /\ result = CheckApproval(NewReader(RuleLinesOnly(reader.data)), reaction, cfg)
           /\ RulesOf(reader.data) = << >>
                  => result = [ approved |-> FALSE, err |-> NilErr ]

C13_Witness ==
    /\ pc = "checked"
    /\ ~reader.fail
    /\ reaction.Name = cfg.ApproveEmoji
    /\ reaction.Username # cfg.MrAuthor
    /\ RulesOf(reader.data) = << >>
    /\ \E k \in 1..Len(ScanLines(reader.data)) :
           Fields(ScanLines(reader.data)[k]) = << << "[", "a" >> >>
    /\ \E k \in 1..Len(ScanLines(reader.data)) :
           HasPrefix(ScanLines(reader.data)[k], << "#" >>)
    /\ result = [ approved |-> FALSE, err |-> NilErr ]

\* The configuration with self-approval forbidden and an author who is
\* nobody: under it every reaction is a non-author's.
ForNonAuthor(c) == [ c EXCEPT !.Insecure = FALSE, !.MrAuthor = << >> ]

\* C14: insecure mode relaxes the self-approval rule only: with Insecure
\* true the author's reaction is approved exactly when the same reaction
\* would be approved for a user who is not the author; the author must still
\* use the approve emoji and be named by the applicable rule.
C14_InsecureRelaxesSelfApprovalOnly ==
    (pc = "checked" /\ cfg.Insecure /\ reaction.Username = cfg.MrAuthor)
        => /\ result = CheckApproval(reader, reaction, ForNonAuthor(cfg))
           /\ CheckedReadable
                  => (result.approved
                          <=> /\ reaction.Name = cfg.ApproveEmoji
                              /\ reaction.Username
                                     \in OwnersOf(reader.data, cfg.TerraformPath))

C14_Witness ==
    /\ pc = "checked"
    /\ cfg.Insecure
    /\ reaction.Username = cfg.MrAuthor
    /\ result = [ approved |-> TRUE, err |-> NilErr ]

\* An author who is not an owner is rejected in insecure mode too.
C14_WitnessNotOwner ==
    /\ CheckedReadable
    /\ cfg.Insecure
    /\ reaction.Username = cfg.MrAuthor
    /\ reaction.Name = cfg.ApproveEmoji
    /\ Applying(RulesOf(reader.data), cfg.TerraformPath) # { }
    /\ result = [ approved |-> FALSE, err |-> NilErr ]

\* The calls of the given operation made so far.
CallsOf(op) == { k \in 1..Len(calls) : calls[k].op = op }

\* fetchCodeOwnersContent has been left.
Fetched == pc \in { "CheckMandatoryApproval", "range reactions", "Run", "exit" }

\* C15: fetchCodeOwnersContent reads the file at cfg.CodeOwnersPath; when
\* cfg.CodeOwnersRepo is set, from that repository, with the id and the
\* default branch GetProject returned for it; when it is empty, from the
\* base project's id and default branch, with no further GetProject call.
C15_FetchSource ==
    /\ \A k \in CallsOf("GetFileContent") :
           /\ calls[k].path = cfg.CodeOwnersPath
           /\ k > 1
           /\ IF cfg.CodeOwnersRepo # ""
              THEN /\ calls[k - 1] = Call("GetProject", 0, cfg.CodeOwnersRepo, TRUE)
                   /\ calls[k].id = CodeOwnersProject.ID
                   /\ calls[k].ref = CodeOwnersProject.DefaultBranch
              ELSE /\ calls[k - 1] = Call("GetProject", 0, cfg.BaseRepo, TRUE)
                   /\ calls[k].id = project.ID
                   /\ calls[k].ref = project.DefaultBranch
    /\ cfg.CodeOwnersRepo = "" => Cardinality(CallsOf("GetProject")) <= 1
    /\ (Fetched /\ calls[1].ok /\ (Len(calls) > 1 => calls[2].ok))
           => Cardinality(CallsOf("GetFileContent")) = 1

C15_Witness ==
    /\ pc = "exit"
    /\ cfg.CodeOwnersRepo = "group/owners"
    /\ cfg.CodeOwnersPath = ".gitlab/CODEOWNERS"
    /\ Cardinality(CallsOf("GetProject")) = 2
    /\ Len(calls) >= 3
    /\ calls[3] = FileCall(2, "master", ".gitlab/CODEOWNERS", TRUE)
    /\ ret.approved

\* The same run reading from the base project.
C15_WitnessBase ==
    /\ pc = "exit"
    /\ cfg.CodeOwnersRepo = ""
    /\ Cardinality(CallsOf("GetProject")) = 1
    /\ Len(calls) >= 2
    /\ calls[2] = FileCall(1, "main", cfg.CodeOwnersPath, TRUE)
    /\ ret.approved

RejectedEarly ==
    \/ reaction.Name # cfg.ApproveEmoji
    \/ (~cfg.Insecure /\ reaction.Username = cfg.MrAuthor)

\* C18: CheckApproval short-circuits: a reaction with the wrong emoji, or
\* the author's reaction with Insecure false, returns (false, nil) before
\* the CODEOWNERS stream is read, so an unreadable stream or a malformed
\* pattern gives no error for such a reaction.
C18_ShortCircuit ==
    (pc = "checked" /\ RejectedEarly)
        => result = [ approved |-> FALSE, err |-> NilErr ]

C18_Witness ==
    /\ pc = "checked"
    /\ reaction.Name # cfg.ApproveEmoji
    /\ reaction.Username # cfg.MrAuthor
    /\ reader.fail
    /\ result = [ approved |-> FALSE, err |-> NilErr ]

\* The author's reaction on a text with a malformed pattern.
C18_WitnessMalformed ==
    /\ pc = "checked"
    /\ reaction.Name = cfg.ApproveEmoji
    /\ ~cfg.Insecure
    /\ reaction.Username = cfg.MrAuthor
    /\ ~reader.fail
    /\ ~WellFormed(reader.data)
    /\ result = [ approved |-> FALSE, err |-> NilErr ]

\* The reaction at position i is not skipped as stale.
NotSkipped(i) ==
    ~(cfg.Restricted /\ reactions[i].UpdatedAt < lastCommitTimestamp)

\* The positions of the reactions that are not skipped, in the order fetched.
NonSkipped ==
    SelectSeq([ i \in 1..Len(reactions) |-> i ], NotSkipped)

\* The reaction at position i passes the emoji and self-approval rules.
PassesEarly(i) ==
    /\ reactions[i].Name = cfg.ApproveEmoji
    /\ cfg.Insecure \/ reactions[i].Username # cfg.MrAuthor

\* The positions of the reactions for which CheckApproval returns true.
Approving ==
    LET resolved == OwnersOf(codeOwnersContent, cfg.TerraformPath)
    IN  IF WellFormed(codeOwnersContent)
        THEN { i \in 1..Len(reactions) : PassesEarly(i) /\ reactions[i].Username \in resolved }
        ELSE { }

\* The positions of the reactions for which CheckApproval returns an error.
Erring ==
    IF WellFormed(codeOwnersContent)
    THEN { }
    ELSE { i \in 1..Len(reactions) : PassesEarly(i) }

Approves(i) == i \in Approving

\* The position in seq of its first element that is in S, or Len(seq) when
\* it has none.
FirstOrAll(seq, S) ==
    IF \E k \in 1..Len(seq) : seq[k] \in S
    THEN CHOOSE k \in 1..Len(seq) :
             seq[k] \in S /\ \A j \in 1..(k - 1) : seq[j] \notin S
    ELSE Len(seq)

\* The loop over the reactions has been entered and left.
LoopDone == Returned /\ NoCallFailed

\* The reactions handed to CheckApproval are the first non-skipped ones, in
\* the order fetched, each once.
InOrderOnce ==
    (pc \in { "range reactions", "Run", "exit" } /\ Len(checked) <= Len(NonSkipped))
        => checked = SubSeq(NonSkipped, 1, Len(checked))

\* C19 as claimed: the reactions are evaluated in the order fetched, each
\* non-skipped one once, up to the first for which CheckApproval returns
\* true; the number of CheckApproval calls is the position of that reaction
\* among the non-skipped ones, or their total count when none approves.
C19_StopsAtFirstApproval ==
    /\ Len(checked) <= Len(NonSkipped)
    /\ InOrderOnce
    /\ LoopDone => Len(checked) = FirstOrAll(NonSkipped, Approving)

\* The positions of the reactions at which the loop stops if it gets there.
Stopping == Approving \cup Erring

\* C19 as amended: the same, except that the loop also stops at the first
\* reaction for which CheckApproval returns an error: the number of calls is
\* the position, among the non-skipped reactions, of the first for which
\* CheckApproval returns true or an error, or their total count when there
\* is none.
C19_StopsAtFirstApprovalOrError ==
    /\ Len(checked) <= Len(NonSkipped)
    /\ InOrderOnce
    /\ LoopDone => Len(checked) = FirstOrAll(NonSkipped, Stopping)
    /\ (LoopDone /\ approver # 0)
           => /\ checked[Len(checked)] = approver
              /\ Approves(approver)

C19_Witness ==
    /\ pc = "exit"
    /\ NoCallFailed
    /\ cfg.Restricted
    /\ Len(reactions) = 2
    /\ NonSkipped = << 1, 2 >>
    /\ checked = << 1 >>
    /\ approver = 1
    /\ Approves(2)

\* The positions of the reactions handed to CheckApproval so far.
Evaluated == { checked[k] : k \in 1..Len(checked) }

\* C20: in restricted mode a stale reaction is skipped without CheckApproval
\* being called for it, and the skip does not end the loop: every later
\* fresh reaction is still evaluated, unless the loop has stopped at an
\* earlier fresh one, and can grant the approval.
C20_StaleSkippedLoopGoesOn ==
    cfg.Restricted
        => /\ \A i \in Evaluated : ~Stale(reactions[i])
           /\ LoopDone
                  => LET stopping == Stopping
                     IN  \A i \in 1..Len(reactions) :
                             (/\ ~Stale(reactions[i])
                              /\ \A j \in 1..(i - 1) :
                                     Stale(reactions[j]) \/ j \notin stopping)
                                 => i \in Evaluated

\* A stale approval by a user, then a fresh one by the same user, which
\* grants.
C20_Witness ==
    /\ pc = "exit"
    /\ cfg.Restricted
    /\ NoCallFailed
    /\ Len(reactions) = 2
    /\ reactions[1].Username = reactions[2].Username
    /\ OtherwiseValid(reactions[1])
    /\ Stale(reactions[1])
    /\ ~Stale(reactions[2])
    /\ checked = << 2 >>
    /\ approver = 2
    /\ ret = [ approved |-> TRUE, err |-> NilErr ]

\* What CheckMandatoryApproval returns when the timestamp fetch fails.
TimestampFailure ==
    [ approved |-> FALSE,
      err |-> Wrap("failed to fetch latest commit timestamp", NewErr("no commits found")) ]

\* C21: in restricted mode the latest commit timestamp is fetched right
\* after the reactions are listed and before any of them is evaluated, and a
\* failure of that fetch makes the run return approved = false with an error
\* wrapped as "failed to fetch latest commit timestamp", with no reaction
\* evaluated, even when the list is empty or holds no candidate approval.
C21_TimestampFetchedFirst ==
    cfg.Restricted
        => /\ \A k \in CallsOf("ListAwardEmojis") :
                  calls[k].ok
                      => /\ Len(calls) = k + 1
                         /\ calls[k + 1].op = "GetLatestCommitTimestamp"
           /\ \A k \in CallsOf("GetLatestCommitTimestamp") :
                  /\ k > 1
                  /\ calls[k - 1].op = "ListAwardEmojis"
                  /\ calls[k - 1].ok
                  /\ ~calls[k].ok
                         => /\ Returned
                            /\ ret = TimestampFailure
                            /\ checked = << >>
           /\ checked # << >>
                  => \E k \in CallsOf("GetLatestCommitTimestamp") : calls[k].ok

\* The fetch fails with no reaction listed.
C21_Witness ==
    /\ pc = "exit"
    /\ cfg.Restricted
    /\ Len(calls) >= 2
    /\ calls[Len(calls)].op = "GetLatestCommitTimestamp"
    /\ ~calls[Len(calls)].ok
    /\ reactions = << >>
    /\ ret = TimestampFailure
    /\ exitCode = 1

\* The fetch fails with reactions of which none has the approve emoji.
C21_WitnessNoCandidate ==
    /\ pc = "exit"
    /\ cfg.Restricted
    /\ Len(calls) >= 2
    /\ calls[Len(calls)].op = "GetLatestCommitTimestamp"
    /\ ~calls[Len(calls)].ok
    /\ Len(reactions) = 2
    /\ \A i \in 1..Len(reactions) : reactions[i].Name # cfg.ApproveEmoji
    /\ ret = TimestampFailure

\* C22: the freshness boundary. In restricted mode a reaction whose UpdatedAt
\* equals the latest commit timestamp, or is later, is not skipped as stale:
\* it is evaluated unless the loop has stopped before it, and it grants the
\* approval when CheckApproval accepts it; only reactions strictly earlier
\* than the latest commit timestamp are skipped.
C22_FreshnessBoundary ==
    (cfg.Restricted /\ LoopDone)
        => LET stopping == Stopping
               approving == Approving
           IN  /\ \A i \in Evaluated : reactions[i].UpdatedAt >= lastCommitTimestamp
               /\ \A i \in 1..Len(reactions) :
                      (/\ reactions[i].UpdatedAt >= lastCommitTimestamp
                       /\ i \notin Evaluated)
                          => \E j \in 1..(i - 1) : j \in Evaluated /\ j \in stopping
               /\ (\E i \in approving : reactions[i].UpdatedAt = lastCommitTimestamp)
                      => ret = [ approved |-> TRUE, err |-> NilErr ]

\* The only approval carries exactly the latest commit's timestamp.
C22_Witness ==
    /\ pc = "exit"
    /\ cfg.Restricted
    /\ NoCallFailed
    /\ Len(reactions) = 2
    /\ lastCommitTimestamp = 2
    /\ reactions[1].UpdatedAt = 1
    /\ reactions[2].UpdatedAt = lastCommitTimestamp
    /\ Approves(2)
    /\ checked = << 2 >>
    /\ approver = 2
    /\ ret.approved

\* A path without its leading slash.
Unrooted(path) == IF path # << >> /\ path[1] = "/" THEN Tail(path) ELSE path

\* The target path starts with the pattern, leading slashes aside.
StartsWith(path, pattern) ==
    LET p == Unrooted(path)
        q == Unrooted(pattern)
    IN  /\ Len(q) <= Len(p)
        /\ \A k \in 1..Len(q) : p[k] = q[k]

\* Prefix-union: the owners of every rule that is the wildcard or a prefix
\* of the path.
PrefixOwners(text, path) ==
    LET rules == RulesOf(text)
    IN  UNION { Named(rules[k]) :
                  k \in { j \in 1..Len(rules) :
                             rules[j][1] = << "*" >> \/ StartsWith(path, rules[j][1]) } }

\* The positions of the reactions that are valid approvals under the
\* prefix-union rules, in the order fetched.
ValidCollected ==
    LET resolved == PrefixOwners(codeOwnersContent, cfg.TerraformPath)
        Valid(i) == ValidFor(reactions[i], resolved)
    IN  SelectSeq([ i \in 1..Len(reactions) |-> i ], Valid)

\* The collect-all orchestrator has returned from filterApprovals.
Collected == Returned /\ NoCallFailed /\ Len(calls) > 0

\* C23: in the collect-all orchestrator approvedBy is exactly the usernames
\* of the reactions that are valid approvals, in the order fetched, one
\* entry for each approving reaction, and the verdict is approved exactly
\* when that list is not empty.
C23_ApprovedByOnePerReaction ==
    Collected
        => LET valid == ValidCollected
           IN  /\ approvedBy = [ k \in 1..Len(valid) |-> reactions[valid[k]].Username ]
               /\ ret = [ approved |-> approvedBy # << >>, err |-> NilErr ]

\* C23, what the code does: filterApprovals appends the username once for
\* each entry that lets the reaction approve, so approvedBy names exactly the
\* users of the valid approvals, in the order fetched, each at least once,
\* and the verdict is approved exactly when approvedBy is not empty.
C23_ApproversCollected ==
    Collected
        => LET valid == ValidCollected
               resolved == PrefixOwners(codeOwnersContent, cfg.TerraformPath)
           IN  /\ { approvedBy[k] : k \in 1..Len(approvedBy) }
                      = { reactions[valid[k]].Username : k \in 1..Len(valid) }
               /\ Len(approvedBy) >= Len(valid)
               /\ \A k \in 1..(Len(approvedBy) - 1) :
                      approvedBy[k] # approvedBy[k + 1]
                          => \E i, j \in 1..Len(valid) :
                                 /\ i < j
                                 /\ reactions[valid[i]].Username = approvedBy[k]
                                 /\ reactions[valid[j]].Username = approvedBy[k + 1]
               /\ ret = [ approved |-> approvedBy # << >>, err |-> NilErr ]

\* The failing case: one approval by a user two applying entries name.
C23_Duplicated ==
    /\ pc = "exit"
    /\ codeOwnersContent = JoinLines[<< LineStarAlice, LineSubAlice >>]
    /\ cfg.TerraformPath = PathAB
    /\ Len(reactions) = 1
    /\ reactions[1].Username = alice
    /\ approvedBy = << alice, alice >>

\* The entry lets the reaction approve, as the prefix-union rules put it.
MayApprove(entry, r) ==
    /\ r.Name = cfg.ApproveEmoji
    /\ r.Username = entry.Owner
    /\ cfg.Insecure \/ r.Username # cfg.MrAuthor
    /\ entry.Path = << "*" >> \/ StartsWith(cfg.TerraformPath, entry.Path)

C24_WitnessRooted ==
    /\ pc = "exit"
    /\ cfg.TerraformPath = PathRootedAB
    /\ codeOwnersContent = JoinLines[<< LineSubAlice >>]
    /\ approvedBy = << alice >>
    /\ ret.approved

\* The collaborator operations of a run that goes through, in order.
ExpectedCalls ==
    << "GetProject" >>
        \o (IF cfg.CodeOwnersRepo # "" THEN << "GetProject" >> ELSE << >>)
        \o << "GetFileContent", "ListAwardEmojis" >>
        \o (IF cfg.Restricted THEN << "GetLatestCommitTimestamp" >> ELSE << >>)

\* C25: the collaborator calls of one run of ProcessMR are made in the order
\* GetProject(base), GetProject(CODEOWNERS repository) only when one is
\* configured, GetFileContent, ListAwardEmojis, GetLatestCommitTimestamp only
\* in restricted mode, each at most once; a failed call is the last one; and
\* with Restricted false GetLatestCommitTimestamp is never called, no
\* reaction is skipped for its timestamp and the verdict is decided by the
\* emoji, the author and the ownership alone.
C25_CallOrder ==
    LET expected == ExpectedCalls
    IN  /\ Len(calls) <= Len(expected)
        /\ \A k \in 1..Len(calls) :
               /\ calls[k].op = expected[k]
               /\ k < Len(calls) => calls[k].ok
        /\ Len(calls) >= 1 => calls[1].ref = cfg.BaseRepo
        /\ (Len(calls) >= 2 /\ cfg.CodeOwnersRepo # "")
               => calls[2].ref = cfg.CodeOwnersRepo
        /\ (pc \in { "ProcessMR", "CheckApproval", "checked" }) => calls = << >>
        /\ (pc = "range reactions" \/ (Returned /\ NoCallFailed))
               => Len(calls) = Len(expected)
        /\ (Returned /\ ~NoCallFailed) => checked = << >>
        /\ ~cfg.Restricted
               => /\ CallsOf("GetLatestCommitTimestamp") = { }
                  /\ lastCommitTimestamp = ZeroTime
                  /\ LoopDone
                         => /\ ret.approved <=> Approving # { }
                            /\ Len(checked) = FirstOrAll([ i \in 1..Len(reactions) |-> i ],
                                                         Stopping)

\* Every call is made, the optional ones included.
C25_Witness ==
    /\ pc = "exit"
    /\ cfg.CodeOwnersRepo # ""
    /\ cfg.Restricted
    /\ NoCallFailed
    /\ Len(calls) = 5
    /\ calls[2].op = "GetProject"
    /\ calls[5].op = "GetLatestCommitTimestamp"
    /\ ret.approved

\* The second GetProject fails: nothing is called after it.
C25_WitnessFailure ==
    /\ pc = "exit"
    /\ Len(calls) = 2
    /\ calls[2].op = "GetProject"
    /\ ~calls[2].ok
    /\ ret.err # NilErr

\* Without the restriction an approval older than anything is accepted.
C25_WitnessUnrestricted ==
    /\ pc = "exit"
    /\ ~cfg.Restricted
    /\ Len(calls) = 3
    /\ NoCallFailed
    /\ Len(reactions) = 1
    /\ reactions[1].UpdatedAt = 1
    /\ ret.approved

\* C26: a CODEOWNERS text with a malformed pattern in any rule line never
\* leads to an approval: the run ends with an error or not approved, and
\* CheckApproval never returns true, whatever the reactions, the target path
\* and the policy, even when a well-formed rule before or after the
\* malformed one matches the path and names the reacting user.
C26_MalformedNeverApproves ==
    /\ (pc \in { "range reactions", "Run", "exit" } /\ ~WellFormed(codeOwnersContent))
           => /\ approver = 0
              /\ ~ret.approved
              /\ pc = "exit" => exitCode = 1
    /\ (pc = "checked" /\ ~reader.fail /\ ~WellFormed(reader.data))
           => ~result.approved

\* A well-formed rule before the malformed one names the reacting user for
\* the path: the run ends with the error.
C26_Witness ==
    /\ pc = "exit"
    /\ NoCallFailed
    /\ codeOwnersContent = JoinLines[<< LineDirBob, LineMalformed >>]
    /\ cfg.TerraformPath = PathAB
    /\ Len(reactions) = 1
    /\ reactions[1].Name = cfg.ApproveEmoji
    /\ reactions[1].Username = bob
    /\ ret.err # NilErr
    /\ ~ret.approved

\* The malformed rule comes first, the matching one after it.
C26_WitnessLater ==
    /\ pc = "checked"
    /\ reader = NewReader(JoinLines[<< LineMalformed, LineStarAlice >>])
    /\ reaction.Name = cfg.ApproveEmoji
    /\ reaction.Username = alice
    /\ cfg.MrAuthor = carol
    /\ result.err # NilErr
    /\ ~result.approved

\* The approval processor's answers for the reactions rs, in their order.
RECURSIVE AnswersTo(_, _, _)
AnswersTo(rs, content, c) ==
    IF rs = << >>
    THEN << >>
    ELSE << CheckApproval(NewReader(content), Head(rs), c) >> \o AnswersTo(Tail(rs), content, c)

\* What the loop returns for the reactions rs under the configuration c and
\* the latest commit timestamp ts.
Decided(rs, c, ts) == RangeReactions(rs, AnswersTo(rs, codeOwnersContent, c), c, ts)

\* The reactions in the order the permutation p gives them.
Permuted(rs, p) == [ k \in 1..Len(rs) |-> rs[p[k]] ]

\* What the loop returns for the run's reactions taken in the order p, the
\* processor answering got for them as fetched.
DecidedInOrder(p, got) ==
    RangeReactions(Permuted(reactions, p), Permuted(got, p), cfg, lastCommitTimestamp)

\* C27: the outcome of CheckMandatoryApproval (approved, not approved or the
\* error) is the same for every permutation of the fetched reactions: the
\* run's result is what the loop returns for the list in any other order.
C27_OrderIrrelevant ==
    (pc = "exit" /\ NoCallFailed)
        => LET Same(got) == \A p \in Permutations(1..Len(reactions)) : DecidedInOrder(p, got) = ret
           IN  Same(AnswersTo(reactions, codeOwnersContent, cfg))

\* An approval found second is found first in the other order; the loop
\* stops at different places and the outcome is the same.
C27_Witness ==
    /\ pc = "exit"
    /\ NoCallFailed
    /\ Len(reactions) = 2
    /\ reactions[1] # reactions[2]
    /\ checked = << 1, 2 >>
    /\ approver = 2
    /\ ret.approved
    /\ Decided(<< reactions[2], reactions[1] >>, cfg, lastCommitTimestamp) = ret

\* The reactions at the positions in S, in the order fetched.
Kept(rs, S) ==
    LET In(i) == i \in S
        at == SelectSeq([ i \in 1..Len(rs) |-> i ], In)
    IN  [ k \in 1..Len(at) |-> rs[at[k]] ]

\* What the loop returns for the run's reactions at the positions in S, the
\* processor answering got for them as fetched.
DecidedKeeping(S, got) ==
    RangeReactions(Kept(reactions, S), Kept(got, S), cfg, lastCommitTimestamp)

\* C28: approval is monotone in the reactions. When the loop returns
\* approved for a list, the run on any list got by adding reactions to it,
\* anywhere, with the same text, policy and commit timestamp, is approved
\* too, without an error: a run is approved whenever the reactions left
\* after removing some of them would be.
C28_MonotoneInReactions ==
    (pc = "exit" /\ NoCallFailed)
        => \/ ret = [ approved |-> TRUE, err |-> NilErr ]
           \/ LET Never(got) == \A S \in SUBSET (1..Len(reactions)) : ~DecidedKeeping(S, got).approved
              IN  Never(AnswersTo(reactions, codeOwnersContent, cfg))

\* A stale approval added in front of the reaction that approves alone.
C28_Witness ==
    /\ pc = "exit"
    /\ NoCallFailed
    /\ cfg.Restricted
    /\ Len(reactions) = 2
    /\ Stale(reactions[1])
    /\ OtherwiseValid(reactions[1])
    /\ Decided(<< reactions[2] >>, cfg, lastCommitTimestamp).approved
    /\ ~Decided(<< reactions[1] >>, cfg, lastCommitTimestamp).approved
    /\ ret = [ approved |-> TRUE, err |-> NilErr ]

\* What the loop returns for the run's reactions under the configuration c
\* and the latest commit timestamp ts.
Under(c, ts) == Decided(reactions, c, ts)

\* The run's reactions are not approved under the configuration c, whatever
\* the latest commit timestamp.
NeverUnder(c) ==
    LET Never(got) == \A ts \in Instants : ~RangeReactions(reactions, got, c, ts).approved
    IN  Never(AnswersTo(reactions, codeOwnersContent, c))

\* C29: the policy toggles move one way only. With every other input the
\* same and no collaborator failure, a run approved with Restricted true is
\* approved with Restricted false, and a run approved with Insecure false is
\* approved with Insecure true; turning the freshness restriction on, or the
\* self-approval relaxation off, never makes a run that is not approved
\* approved.
C29_TogglesMonotone ==
    (pc = "exit" /\ NoCallFailed)
        => /\ ret.approved
                  => /\ Under([ cfg EXCEPT !.Restricted = FALSE ], ZeroTime).approved
                     /\ Under([ cfg EXCEPT !.Insecure = TRUE ], lastCommitTimestamp).approved
           /\ ~ret.approved
                  => /\ cfg.Restricted \/ NeverUnder([ cfg EXCEPT !.Restricted = TRUE ])
                     /\ ~Under([ cfg EXCEPT !.Insecure = FALSE ], lastCommitTimestamp).approved

\* A strict run that is approved although it rejects the author's own
\* reaction and a stale one; relaxed, it is approved by either.
C29_Witness ==
    /\ pc = "exit"
    /\ NoCallFailed
    /\ cfg.Restricted
    /\ ~cfg.Insecure
    /\ ret.approved
    /\ Len(reactions) = 2
    /\ reactions[1].Username = cfg.MrAuthor
    /\ reactions[1].Name = cfg.ApproveEmoji
    /\ approver = 2
    /\ Under([ cfg EXCEPT !.Insecure = TRUE ], lastCommitTimestamp).approved
    /\ Under([ cfg EXCEPT !.Restricted = FALSE ], ZeroTime).approved

\* A relaxed run approved only by a stale reaction: the restriction rejects
\* it.
C29_WitnessLost ==
    /\ pc = "exit"
    /\ NoCallFailed
    /\ ~cfg.Restricted
    /\ ret.approved
    /\ ~Under([ cfg EXCEPT !.Restricted = TRUE ], 2).approved

\* C30: every reaction is evaluated against the complete CODEOWNERS content:
\* CheckApproval gets a fresh reader over the unchanged text each time, so
\* the verdict on the k-th evaluated reaction is the one the owners resolved
\* from the whole text give, as for the first, whatever earlier evaluations
\* have read.
C30_FreshReaderEachTime ==
    /\ [][codeOwnersContent' = codeOwnersContent \/ pc = "fetchCodeOwnersContent"]_vars
    /\ [](LoopDone
             => LET resolved == OwnersOf(codeOwnersContent, cfg.TerraformPath)
                    wf == WellFormed(codeOwnersContent)
                IN  \A k \in 1..Len(checked) :
                        PassesEarly(checked[k])
                            => IF wf
                               THEN reactions[checked[k]].Username \in resolved
                                        <=> approver = checked[k]
                               ELSE /\ k = Len(checked)
                                    /\ ret.err # NilErr)

\* The first evaluation reads the text to its end and rejects a user who is
\* no owner; the second still finds the owner's rule.
C30_Witness ==
    /\ pc = "exit"
    /\ NoCallFailed
    /\ codeOwnersContent # << >>
    /\ checked = << 1, 2 >>
    /\ PassesEarly(1)
    /\ reactions[1].Username \notin OwnersOf(codeOwnersContent, cfg.TerraformPath)
    /\ reactions[2].Username \in OwnersOf(codeOwnersContent, cfg.TerraformPath)
    /\ approver = 2
    /\ ret.approved

====
